---- MODULE Spec2Model ----
(***************************************************************************)
(* Model of src/C++/ndi2omt/ndi_to_omt_converter.cpp: the capture/forward  *)
(* loop NDIToOMTConverter::run, the video handler handle_video_frame, the  *)
(* compressed-packet validation and H.264 start-code scan of               *)
(* handle_compressed_frame, the envelope builder and sink accounting of    *)
(* send_compressed_to_omt, the periodic connection sample, the report and  *)
(* warnings of print_statistics, and the asynchronous signal_handler.      *)
(***************************************************************************)
EXTENDS Integers, Sequences, FiniteSets, TLC

(* ------------------------------ bounds -------------------------------- *)

\* Number of NDIlib_recv_capture_v3 calls explored in one run.
MaxPolls == 2

\* Clock granularity: ticks of the high_resolution_clock per second.
TicksPerSecond == 1

\* Largest advance of the clock (in ticks) between two reads of it.
MaxDt == 1

\* Length of a large encoded unit (bytes after the packet header).
BigUnit == 1073741824

\* Number of captures explored in a run of keyframes and timeouts.
MaxDropPolls == 21

\* Number of captures explored in a run of keyframes and delta frames.
MaxKeyPolls == 13

\* Longest encoded unit whose bytes are enumerated exhaustively.
MaxSpan == 4

(* ------------------------- program constants -------------------------- *)

\* sizeof(NDIlib_compressed_packet_t); the struct is declared by the NDI SDK.
HeaderSize == 8

\* NDIlib_compressed_packet_flags_keyframe
KeyframeBit == 1

\* Largest value of the int inside std::atomic<int>.
INT_MAX == 2147483647

INT_MIN == (-INT_MAX) - 1

NULL == 0

H264 == "H264"

OMTVideoFlags_None == "OMTVideoFlags_None"

(* ----------------------------- inputs --------------------------------- *)

\* Values of NDIlib_video_frame_v2_t::FourCC delivered by the source.
FourCCs == {H264, "UYVY"}

\* (xres, yres, frame_rate_N, frame_rate_D) reported by delivered frames.
Geometries ==
    { <<1920, 1080, 30, 1>>, <<1280, 720, 60, 1>>, <<1280, 0, 30, 1>> }

\* data_size_in_bytes of delivered frames.
PayloadSizes == {0, 4, HeaderSize, HeaderSize + 4, HeaderSize + BigUnit}

\* The compressed-packet header found in the first HeaderSize payload bytes.
Packets ==
    [fourCC : {H264}, flags : {0, 1, 2}] \cup [fourCC : {"UYVY"}, flags : {1}]

NoPacket == [fourCC |-> "none", flags |-> 0]

\* Return values of omt_send.
SendResults == {-1, 0, 200}

\* Return values of omt_send_connections.
ConnectionCounts == {0, 1}

FrameKinds == {"video", "audio", "metadata", "none", "status_change", "error"}

NoFrame ==
    [xres |-> 0, yres |-> 0, frame_rate_N |-> 0, frame_rate_D |-> 0,
     FourCC |-> "none", p_data |-> NULL, data_size_in_bytes |-> 0,
     packet |-> NoPacket, unit |-> <<>>]

\* (p_data, data_size_in_bytes, header) of a frame delivered into buffer b.
\* A header exists only in a payload that holds at least HeaderSize bytes.
Payloads(b) ==
    { <<NULL, HeaderSize + 4, NoPacket>> }
    \cup { <<b, s, NoPacket>> : s \in { x \in PayloadSizes : x < HeaderSize } }
    \cup { <<b, s, k>> : s \in { x \in PayloadSizes : x >= HeaderSize },
                         k \in Packets }

\* The payload bytes that follow the packet header (the scan reads at most
\* the first 33 of them): none in a payload of at most HeaderSize bytes, a
\* 3-byte start code and an IDR NAL header in the 4-byte unit, a 4-byte start
\* code and a non-IDR slice header at the start of the large unit.
UnitBytes(p_data, size) ==
    IF p_data = NULL \/ size <= HeaderSize THEN <<>>
    ELSE IF size = HeaderSize + 4 THEN <<0, 0, 1, 101>>
    ELSE <<0, 0, 0, 1, 65>> \o [x \in 1..28 |-> 255]

\* The video frames NDIlib_recv_capture_v3 may deliver into buffer b.
VideoFrames(b) ==
    { [xres |-> g[1], yres |-> g[2], frame_rate_N |-> g[3],
       frame_rate_D |-> g[4], FourCC |-> c, p_data |-> d[1],
       data_size_in_bytes |-> d[2], packet |-> d[3],
       unit |-> UnitBytes(d[1], d[2])] :
         g \in Geometries, c \in FourCCs, d \in Payloads(b) }

\* Byte values of the exhaustively enumerated encoded units.
ScanBytes == {0, 1, 101}

\* NAL header bytes: types 5 (0x65, 0x25), 1 (0x41), 7 (0x67), 8 (0x68),
\* 9 (0x09) and 31 (0xFF).
NalBytes == {101, 37, 65, 103, 104, 9, 255}

Fill(k) == [x \in 1..k |-> 255]

\* Every encoded unit of at most MaxSpan bytes over ScanBytes.
ShortUnits == UNION { [1..n -> ScanBytes] : n \in 0..MaxSpan }

\* Units with a start code at the start or around the end of the 32-byte
\* scan window, cut right after the start code, after the NAL header byte,
\* or after a second start code and header.
LongUnits ==
    { Fill(k) \o m \o t :
        k \in {0} \cup 26..30,
        m \in { <<0, 0, 1>>, <<0, 0, 0, 1>> },
        t \in { <<>> } \cup { <<b>> : b \in NalBytes }
                       \cup { <<b, 0, 0, 1, 65>> : b \in NalBytes } }

\* Valid compressed frames delivered into buffer b, one for every unit and
\* keyframe flag.
ScanFrames(b) ==
    { [xres |-> 1920, yres |-> 1080, frame_rate_N |-> 30, frame_rate_D |-> 1,
       FourCC |-> H264, p_data |-> b,
       data_size_in_bytes |-> HeaderSize + Len(u),
       packet |-> [fourCC |-> H264, flags |-> fl], unit |-> u] :
         u \in ShortUnits \cup LongUnits, fl \in {0, KeyframeBit} }

(* ------------------------------ state --------------------------------- *)

VARIABLES
    running,                  \* std::atomic<bool> running
    pc,                       \* position of run()
    polls,                    \* captures made so far
    frame_type,               \* result of the last NDIlib_recv_capture_v3
    video_frame,              \* NDIlib_video_frame_v2_t filled by the capture
    owned,                    \* buffers delivered and not yet freed, per kind
    frees,                    \* NDIlib_recv_free_* calls since the last capture
    warned_about_compression,
    frames_received, frames_sent, bytes_received, bytes_sent,
    connections, keyframes_sent, pframes_sent, frames_dropped,
    current_width, current_height, current_fps_n, current_fps_d,
    omt_frame,                \* OMTMediaFrame of run(), reused for every send
    now,                      \* high_resolution_clock
    last_connection_check, last_stats_time,
    reports,                  \* "=== FRAME STATISTICS ===" blocks printed
    report,                   \* the warnings printed with the last of them
    validation,               \* outcome of handle_compressed_frame, last frame
    hdr_read,                 \* last frame: packet header fields were read
    unit_read,                \* last frame: encoded-unit bytes were read
    send_result,              \* bytes_sent_result of the last frame, or NoSend
    send_calls,               \* omt_send calls made so far
    format_changes,           \* "Stream format:" lines logged so far
    sent_flags,               \* (is_keyframe, omt_frame.Flags) of the sends
    nal_scan                  \* has_start_codes, frame_type of the last frame

counters ==
    <<frames_received, frames_sent, bytes_received, bytes_sent,
      keyframes_sent, pframes_sent, frames_dropped>>

geometry == <<current_width, current_height, current_fps_n, current_fps_d>>

clock == <<now, last_connection_check, last_stats_time, connections,
           reports, report>>

frame_log == <<validation, hdr_read, unit_read, send_result, send_calls,
               format_changes, sent_flags, nal_scan>>

vars ==
    <<running, pc, polls, frame_type, video_frame, owned, frees,
      warned_about_compression, counters, geometry, omt_frame, clock,
      frame_log>>

\* Value of send_result when omt_send was not called for the last frame: an
\* int that is not among SendResults.
NoSend == INT_MIN

StartTime == 0

\* The clock when run() starts: initialize() has slept 2000 ms since the
\* constructor read start_time.
RunStart == StartTime + 2 * TicksPerSecond

NoReport == [only_keyframes |-> FALSE, high_drop_rate |-> FALSE]

BufferKinds == {"video", "audio", "metadata"}

(* --------------------------- pure helpers ----------------------------- *)

\* a + b in the int of std::atomic<int>: two's complement, wraps.
AddInt32(a, b) ==
    IF b > 0 /\ a > INT_MAX - b THEN (a - INT_MAX - 1) + (b - INT_MAX - 1)
    ELSE IF b < 0 /\ a < INT_MIN - b THEN (a + INT_MAX + 1) + (b + INT_MAX + 1)
    ELSE a + b

RECURSIVE Gcd(_, _)
Gcd(a, b) == IF b = 0 THEN a ELSE Gcd(b, a % b)

\* (float)w / h, as the fraction in lowest terms; IEEE infinities and NaN
\* for a zero divisor.  Widths and heights are not negative here.
FloatDiv(w, h) ==
    IF h = 0 THEN (IF w = 0 THEN <<"nan">> ELSE <<"inf">>)
    ELSE <<w \div Gcd(w, h), h \div Gcd(w, h)>>

\* (packet->flags & NDIlib_compressed_packet_flags_keyframe) != 0
IsKeyframe(flags) == (flags \div KeyframeBit) % 2 # 0

\* if (bytes_sent_result >= 0)
SendAccepted(result) == result >= 0

\* handle_compressed_frame without the "frame too small" test: the header is
\* read from whatever follows p_data.
handle_compressed_frame_NoSizeCheck(f) ==
    IF f.p_data = NULL \/ f.data_size_in_bytes = 0
    THEN [outcome |-> "Empty", hdr_read |-> FALSE]
    ELSE IF f.FourCC = H264
         THEN IF f.packet.fourCC # H264
              THEN [outcome |-> "WrongCodec", hdr_read |-> TRUE]
              ELSE [outcome |-> "Ok", hdr_read |-> TRUE]
         ELSE [outcome |-> "NotCompressed", hdr_read |-> FALSE]

\* handle_compressed_frame parsing the packet header before it looks at the
\* frame's FourCC.
handle_compressed_frame_HeaderFirst(f) ==
    IF f.p_data = NULL \/ f.data_size_in_bytes = 0
    THEN [outcome |-> "Empty", hdr_read |-> FALSE]
    ELSE IF f.data_size_in_bytes < HeaderSize
         THEN [outcome |-> "TooSmall", hdr_read |-> FALSE]
         ELSE IF f.packet.fourCC # H264
              THEN [outcome |-> "WrongCodec", hdr_read |-> TRUE]
              ELSE IF f.FourCC = H264
                   THEN [outcome |-> "Ok", hdr_read |-> TRUE]
                   ELSE [outcome |-> "NotCompressed", hdr_read |-> TRUE]

\* handle_compressed_frame rejecting a payload that holds the packet header
\* and nothing else.
handle_compressed_frame_HeaderOnlyTooSmall(f) ==
    IF f.p_data = NULL \/ f.data_size_in_bytes = 0
    THEN [outcome |-> "Empty", hdr_read |-> FALSE]
    ELSE IF f.FourCC = H264
         THEN IF f.data_size_in_bytes <= HeaderSize
              THEN [outcome |-> "TooSmall", hdr_read |-> FALSE]
              ELSE IF f.packet.fourCC # H264
                   THEN [outcome |-> "WrongCodec", hdr_read |-> TRUE]
                   ELSE [outcome |-> "Ok", hdr_read |-> TRUE]
         ELSE [outcome |-> "NotCompressed", hdr_read |-> FALSE]

\* handle_compressed_frame up to the point where the H.264 data is isolated:
\* the path taken for frame f (the rejection it logs, or "Ok") and whether the
\* packet header fields (version, fourCC, flags) were read on that path.
handle_compressed_frame(f) ==
    IF f.p_data = NULL \/ f.data_size_in_bytes = 0
    THEN [outcome |-> "Empty", hdr_read |-> FALSE]
    ELSE IF f.FourCC = H264
         THEN IF f.data_size_in_bytes < HeaderSize
              THEN [outcome |-> "TooSmall", hdr_read |-> FALSE]
              ELSE IF f.packet.fourCC # H264
                   THEN [outcome |-> "WrongCodec", hdr_read |-> TRUE]
                   ELSE [outcome |-> "Ok", hdr_read |-> TRUE]
         ELSE [outcome |-> "NotCompressed", hdr_read |-> FALSE]

Outcomes == {"Empty", "TooSmall", "WrongCodec", "NotCompressed", "Ok"}

(* ------------------- H.264 start-code scan (370-406) ------------------ *)

\* for (size_t i = 0; i < std::min(h264_size, (size_t)32); i++)
ScanWindow == 32

\* uint8_t nal_type = h264_data[i + 1] & 0x1F
NalMask == 32

Min(a, b) == IF a < b THEN a ELSE b

Max(a, b) == IF a > b THEN a ELSE b

\* h264_data[x]: the span is held as a sequence, byte 0 first.
ByteAt(h264_data, x) == h264_data[x + 1]

\* The string the scan stores in its local frame_type, with the NAL type it
\* was derived from (-1 when no NAL header byte was read).
Unknown == [name |-> "Unknown", nal_type |-> -1]

NalName(nal_type) ==
    [name |-> IF nal_type = 5 THEN "IDR (I-frame)"
              ELSE IF nal_type = 1 THEN "P-frame"
              ELSE IF nal_type = 7 THEN "SPS"
              ELSE IF nal_type = 8 THEN "PPS"
              ELSE "NAL type",
     nal_type |-> nal_type]

\* Result of a scan that was not run (the frame was rejected before it).
NoScan == [has_start_codes |-> FALSE, frame_type |-> Unknown, top |-> -1]

\* i >= 3 && h264_data[i-3] == 0x00 && h264_data[i-2] == 0x00 &&
\* h264_data[i-1] == 0x00 && h264_data[i] == 0x01
Match4(h264_data, i) ==
    /\ i >= 3
    /\ ByteAt(h264_data, i - 3) = 0 /\ ByteAt(h264_data, i - 2) = 0
    /\ ByteAt(h264_data, i - 1) = 0 /\ ByteAt(h264_data, i) = 1

\* i >= 2 && h264_data[i-2] == 0x00 && h264_data[i-1] == 0x00 &&
\* h264_data[i] == 0x01
Match3(h264_data, i) ==
    /\ i >= 2
    /\ ByteAt(h264_data, i - 2) = 0 /\ ByteAt(h264_data, i - 1) = 0
    /\ ByteAt(h264_data, i) = 1

\* Highest index the two tests of iteration i read (&& stops at the first
\* comparison that fails); -1 when i < 2 and nothing is read.
TestsTop(h264_data, i) ==
    IF i < 2 THEN -1
    ELSE IF ByteAt(h264_data, i - 2) # 0 THEN i - 2
    ELSE IF ByteAt(h264_data, i - 1) # 0 THEN i - 1
    ELSE i

\* The NAL type taken from the whole byte, without the & 0x1F.
NalAfter_NoMask(h264_data, h264_size, i, top) ==
    IF i + 1 < h264_size
    THEN [has_start_codes |-> TRUE,
          frame_type |-> NalName(ByteAt(h264_data, i + 1)),
          top |-> Max(top, i + 1)]
    ELSE [has_start_codes |-> TRUE, frame_type |-> Unknown, top |-> top]

\* "Analyze NAL unit type if we have enough data", after a marker that ends
\* at index i.
NalAfter(h264_data, h264_size, i, top) ==
    IF i + 1 < h264_size
    THEN [has_start_codes |-> TRUE,
          frame_type |-> NalName(ByteAt(h264_data, i + 1) % NalMask),
          top |-> Max(top, i + 1)]
    ELSE [has_start_codes |-> TRUE, frame_type |-> Unknown, top |-> top]

\* The iterations i, i+1, ... of the loop; top is the highest index read by
\* the iterations before i.
RECURSIVE ScanFrom(_, _, _, _)
ScanFrom(h264_data, h264_size, i, top) ==
    IF i >= Min(h264_size, ScanWindow)
    THEN [has_start_codes |-> FALSE, frame_type |-> Unknown, top |-> top]
    ELSE LET t == Max(top, TestsTop(h264_data, i))
         IN IF Match4(h264_data, i) \/ Match3(h264_data, i)
            THEN NalAfter(h264_data, h264_size, i, t)
            ELSE ScanFrom(h264_data, h264_size, i + 1, t)

\* "Verify H.264 start codes and get frame type"
ScanStartCodes(h264_data, h264_size) == ScanFrom(h264_data, h264_size, 0, -1)

(* ------------------------------- Init --------------------------------- *)

Init ==
    /\ running = TRUE
    /\ pc = "while"
    /\ polls = 0
    /\ frame_type = "none"
    /\ video_frame = NoFrame
    /\ owned = [k \in BufferKinds |-> 0]
    /\ frees = 0
    /\ warned_about_compression = FALSE
    /\ frames_received = 0 /\ frames_sent = 0
    /\ bytes_received = 0 /\ bytes_sent = 0
    /\ connections = 0
    /\ keyframes_sent = 0 /\ pframes_sent = 0 /\ frames_dropped = 0
    /\ current_width = 0 /\ current_height = 0
    /\ current_fps_n = 30 /\ current_fps_d = 1
    /\ omt_frame =
         [Flags |-> OMTVideoFlags_None, Width |-> 0, Height |-> 0,
          FrameRateN |-> 0, FrameRateD |-> 0, AspectRatio |-> <<0, 1>>,
          Data |-> [buffer |-> NULL, offset |-> 0], DataLength |-> 0]
    /\ now = RunStart
    /\ last_connection_check = RunStart
    /\ last_stats_time = StartTime
    /\ reports = 0
    /\ report = NoReport
    /\ validation = "none"
    /\ hdr_read = FALSE
    /\ unit_read = FALSE
    /\ send_result = NoSend
    /\ send_calls = 0
    /\ format_changes = 0
    /\ sent_flags = {}
    /\ nal_scan = NoScan

(* ------------------------------ actions ------------------------------- *)

\* signal_handler: may run at any point of the loop.
SignalHandler ==
    /\ running = TRUE
    /\ running' = FALSE
    /\ UNCHANGED <<pc, polls, frame_type, video_frame, owned, frees,
                   warned_about_compression, counters, geometry, omt_frame,
                   clock, frame_log>>

\* The loop condition also giving up after a send that failed.
LoopTestUpTo_StopOnSendFailure(max) ==
    /\ pc = "while"
    /\ IF running /\ ~(validation = "Ok" /\ send_result < 0)
       THEN polls < max /\ pc' = "capture"
       ELSE pc' = "stopped"
    /\ UNCHANGED <<running, polls, frame_type, video_frame, owned, frees,
                   warned_about_compression, counters, geometry, omt_frame,
                   clock, frame_log>>

\* while (running), in a run explored up to max captures.
LoopTestUpTo(max) ==
    /\ pc = "while"
    /\ IF running THEN polls < max /\ pc' = "capture"
                  ELSE pc' = "stopped"
    /\ UNCHANGED <<running, polls, frame_type, video_frame, owned, frees,
                   warned_about_compression, counters, geometry, omt_frame,
                   clock, frame_log>>

LoopTest == LoopTestUpTo(MaxPolls)

\* NDIlib_recv_capture_v3(..., 100): delivers one event of a kind in kinds,
\* a video event with a frame in frames; a video, audio or metadata event
\* hands one buffer to the caller.
CaptureOf(kinds, frames) ==
    /\ pc = "capture"
    /\ polls' = polls + 1
    /\ \E k \in kinds :
         /\ frame_type' = k
         /\ IF k = "video"
            THEN \E f \in frames : video_frame' = f
            ELSE video_frame' = video_frame
         /\ owned' = IF k \in BufferKinds
                     THEN [owned EXCEPT ![k] = @ + 1] ELSE owned
    /\ frees' = 0
    /\ pc' = "switch"
    /\ UNCHANGED <<running, warned_about_compression, counters, geometry,
                   omt_frame, clock, frame_log>>

Capture == CaptureOf(FrameKinds, VideoFrames(polls + 1))

\* The aspect ratio computed once, at the first send, and reused afterwards.
EnvelopeAspectRatio_Cached ==
    IF send_calls = 0 THEN FloatDiv(current_width', current_height')
    ELSE omt_frame.AspectRatio

\* omt_frame.AspectRatio = (float)current_width / current_height
EnvelopeAspectRatio == FloatDiv(current_width', current_height')

\* send_compressed_to_omt calling omt_send a second time, with the same
\* outcome, after a negative result.
send_compressed_to_omt_Retry(h264_data, data_size, is_keyframe, result) ==
    /\ omt_frame' =
         [omt_frame EXCEPT
            !.Width = current_width', !.Height = current_height',
            !.FrameRateN = current_fps_n', !.FrameRateD = current_fps_d',
            !.AspectRatio = EnvelopeAspectRatio,
            !.Data = h264_data, !.DataLength = data_size,
            !.Flags = OMTVideoFlags_None]
    /\ keyframes_sent' =
         IF is_keyframe THEN AddInt32(keyframes_sent, 1) ELSE keyframes_sent
    /\ pframes_sent' =
         IF is_keyframe THEN pframes_sent ELSE AddInt32(pframes_sent, 1)
    /\ unit_read' = (data_size > 0)
    /\ send_calls' = send_calls + (IF SendAccepted(result) THEN 1 ELSE 2)
    /\ send_result' = result
    /\ sent_flags' = sent_flags \cup {<<is_keyframe, omt_frame'.Flags>>}
    /\ IF SendAccepted(result)
       THEN /\ frames_sent' = AddInt32(frames_sent, 1)
            /\ bytes_sent' = AddInt32(bytes_sent, data_size)
            /\ bytes_received' = AddInt32(bytes_received, data_size)
            /\ frames_dropped' = frames_dropped
       ELSE /\ frames_dropped' = AddInt32(frames_dropped, 1)
            /\ UNCHANGED <<frames_sent, bytes_sent, bytes_received>>

\* send_compressed_to_omt counting a keyframe or delta frame only after
\* omt_send has accepted it.
send_compressed_to_omt_Accepted(h264_data, data_size, is_keyframe, result) ==
    /\ omt_frame' =
         [omt_frame EXCEPT
            !.Width = current_width', !.Height = current_height',
            !.FrameRateN = current_fps_n', !.FrameRateD = current_fps_d',
            !.AspectRatio = EnvelopeAspectRatio,
            !.Data = h264_data, !.DataLength = data_size,
            !.Flags = OMTVideoFlags_None]
    /\ keyframes_sent' =
         IF is_keyframe /\ SendAccepted(result)
         THEN AddInt32(keyframes_sent, 1) ELSE keyframes_sent
    /\ pframes_sent' =
         IF ~is_keyframe /\ SendAccepted(result)
         THEN AddInt32(pframes_sent, 1) ELSE pframes_sent
    /\ unit_read' = (data_size > 0)
    /\ send_calls' = send_calls + 1
    /\ send_result' = result
    /\ sent_flags' = sent_flags \cup {<<is_keyframe, omt_frame'.Flags>>}
    /\ IF SendAccepted(result)
       THEN /\ frames_sent' = AddInt32(frames_sent, 1)
            /\ bytes_sent' = AddInt32(bytes_sent, data_size)
            /\ bytes_received' = AddInt32(bytes_received, data_size)
            /\ frames_dropped' = frames_dropped
       ELSE /\ frames_dropped' = AddInt32(frames_dropped, 1)
            /\ UNCHANGED <<frames_sent, bytes_sent, bytes_received>>

\* send_compressed_to_omt counting the unit's bytes as received whatever
\* omt_send returns.
send_compressed_to_omt_Always(h264_data, data_size, is_keyframe, result) ==
    /\ omt_frame' =
         [omt_frame EXCEPT
            !.Width = current_width', !.Height = current_height',
            !.FrameRateN = current_fps_n', !.FrameRateD = current_fps_d',
            !.AspectRatio = EnvelopeAspectRatio,
            !.Data = h264_data, !.DataLength = data_size,
            !.Flags = OMTVideoFlags_None]
    /\ keyframes_sent' =
         IF is_keyframe THEN AddInt32(keyframes_sent, 1) ELSE keyframes_sent
    /\ pframes_sent' =
         IF is_keyframe THEN pframes_sent ELSE AddInt32(pframes_sent, 1)
    /\ unit_read' = (data_size > 0)
    /\ send_calls' = send_calls + 1
    /\ send_result' = result
    /\ sent_flags' = sent_flags \cup {<<is_keyframe, omt_frame'.Flags>>}
    /\ bytes_received' = AddInt32(bytes_received, data_size)
    /\ IF SendAccepted(result)
       THEN /\ frames_sent' = AddInt32(frames_sent, 1)
            /\ bytes_sent' = AddInt32(bytes_sent, data_size)
            /\ frames_dropped' = frames_dropped
       ELSE /\ frames_dropped' = AddInt32(frames_dropped, 1)
            /\ UNCHANGED <<frames_sent, bytes_sent>>

\* send_compressed_to_omt, called with the stream geometry handle_video_frame
\* has just stored; result is what omt_send returns.
send_compressed_to_omt(h264_data, data_size, is_keyframe, result) ==
    /\ omt_frame' =
         [omt_frame EXCEPT
            !.Width = current_width', !.Height = current_height',
            !.FrameRateN = current_fps_n', !.FrameRateD = current_fps_d',
            !.AspectRatio = EnvelopeAspectRatio,
            !.Data = h264_data, !.DataLength = data_size,
            !.Flags = OMTVideoFlags_None]
    /\ keyframes_sent' =
         IF is_keyframe THEN AddInt32(keyframes_sent, 1) ELSE keyframes_sent
    /\ pframes_sent' =
         IF is_keyframe THEN pframes_sent ELSE AddInt32(pframes_sent, 1)
    /\ unit_read' = (data_size > 0)
    /\ send_calls' = send_calls + 1
    /\ send_result' = result
    /\ sent_flags' = sent_flags \cup {<<is_keyframe, omt_frame'.Flags>>}
    /\ IF SendAccepted(result)
       THEN /\ frames_sent' = AddInt32(frames_sent, 1)
            /\ bytes_sent' = AddInt32(bytes_sent, data_size)
            /\ bytes_received' = AddInt32(bytes_received, data_size)
            /\ frames_dropped' = frames_dropped
       ELSE /\ frames_dropped' = AddInt32(frames_dropped, 1)
            /\ UNCHANGED <<frames_sent, bytes_sent, bytes_received>>

\* handle_video_frame forwarding a frame as a keyframe when the scan found an
\* IDR NAL unit, instead of when the packet flag says so.
handle_video_frame_TrustScan(result) ==
    LET f == video_frame
        v == handle_compressed_frame(f)
    IN /\ frames_received' = AddInt32(frames_received, 1)
       /\ IF current_width # f.xres \/ current_height # f.yres
             \/ current_fps_n # f.frame_rate_N
             \/ current_fps_d # f.frame_rate_D
          THEN /\ current_width' = f.xres
               /\ current_height' = f.yres
               /\ current_fps_n' = f.frame_rate_N
               /\ current_fps_d' = f.frame_rate_D
               /\ format_changes' = format_changes + 1
          ELSE UNCHANGED <<geometry, format_changes>>
       /\ validation' = v.outcome
       /\ hdr_read' = v.hdr_read
       /\ IF v.outcome = "Ok"
          THEN /\ nal_scan' = ScanStartCodes(
                                  f.unit, f.data_size_in_bytes - HeaderSize)
               /\ send_compressed_to_omt(
                      [buffer |-> f.p_data, offset |-> HeaderSize],
                      f.data_size_in_bytes - HeaderSize,
                      nal_scan'.frame_type.nal_type = 5, result)
          ELSE /\ nal_scan' = NoScan
               /\ unit_read' = FALSE
               /\ send_result' = NoSend
               /\ UNCHANGED <<omt_frame, frames_sent, bytes_sent,
                              bytes_received, keyframes_sent, pframes_sent,
                              frames_dropped, send_calls, sent_flags>>

\* handle_video_frame counting the frame and storing its geometry only once
\* the frame has been validated.
handle_video_frame_ValidateFirst(result) ==
    LET f == video_frame
        v == handle_compressed_frame(f)
    IN /\ validation' = v.outcome
       /\ hdr_read' = v.hdr_read
       /\ IF v.outcome = "Ok"
          THEN /\ frames_received' = AddInt32(frames_received, 1)
               /\ IF current_width # f.xres \/ current_height # f.yres
                     \/ current_fps_n # f.frame_rate_N
                     \/ current_fps_d # f.frame_rate_D
                  THEN /\ current_width' = f.xres
                       /\ current_height' = f.yres
                       /\ current_fps_n' = f.frame_rate_N
                       /\ current_fps_d' = f.frame_rate_D
                       /\ format_changes' = format_changes + 1
                  ELSE UNCHANGED <<geometry, format_changes>>
               /\ nal_scan' = ScanStartCodes(
                                  f.unit, f.data_size_in_bytes - HeaderSize)
               /\ send_compressed_to_omt(
                      [buffer |-> f.p_data, offset |-> HeaderSize],
                      f.data_size_in_bytes - HeaderSize,
                      IsKeyframe(f.packet.flags), result)
          ELSE /\ nal_scan' = NoScan
               /\ unit_read' = FALSE
               /\ send_result' = NoSend
               /\ UNCHANGED <<counters, geometry, format_changes, omt_frame,
                              send_calls, sent_flags>>

\* handle_video_frame on the frame the capture delivered.
handle_video_frame(result) ==
    LET f == video_frame
        v == handle_compressed_frame(f)
    IN /\ frames_received' = AddInt32(frames_received, 1)
       /\ IF current_width # f.xres \/ current_height # f.yres
             \/ current_fps_n # f.frame_rate_N
             \/ current_fps_d # f.frame_rate_D
          THEN /\ current_width' = f.xres
               /\ current_height' = f.yres
               /\ current_fps_n' = f.frame_rate_N
               /\ current_fps_d' = f.frame_rate_D
               /\ format_changes' = format_changes + 1
          ELSE UNCHANGED <<geometry, format_changes>>
       /\ validation' = v.outcome
       /\ hdr_read' = v.hdr_read
       /\ IF v.outcome = "Ok"
          THEN /\ nal_scan' = ScanStartCodes(
                                  f.unit, f.data_size_in_bytes - HeaderSize)
               /\ send_compressed_to_omt(
                      [buffer |-> f.p_data, offset |-> HeaderSize],
                      f.data_size_in_bytes - HeaderSize,
                      IsKeyframe(f.packet.flags), result)
          ELSE /\ nal_scan' = NoScan
               /\ unit_read' = FALSE
               /\ send_result' = NoSend
               /\ UNCHANGED <<omt_frame, frames_sent, bytes_sent,
                              bytes_received, keyframes_sent, pframes_sent,
                              frames_dropped, send_calls, sent_flags>>

\* case NDIlib_frame_type_video, up to the call of handle_video_frame.
CaseVideo ==
    /\ pc = "switch" /\ frame_type = "video"
    /\ warned_about_compression' = TRUE
    /\ \E result \in SendResults : handle_video_frame(result)
    /\ pc' = "free_video"
    /\ UNCHANGED <<running, polls, frame_type, video_frame, owned, frees,
                   clock>>

\* The video buffer freed only after a frame that was forwarded.
FreeVideo_OnlyForwarded ==
    /\ pc = "free_video"
    /\ owned' = IF validation = "Ok"
                THEN [owned EXCEPT !["video"] = @ - 1] ELSE owned
    /\ frees' = IF validation = "Ok" THEN frees + 1 ELSE frees
    /\ pc' = "stats"
    /\ UNCHANGED <<running, polls, frame_type, video_frame,
                   warned_about_compression, counters, geometry, omt_frame,
                   clock, frame_log>>

\* The loop left in the middle of an iteration, before the release, once
\* the shutdown flag is set.
FreeVideo_CancelOnShutdown ==
    /\ pc = "free_video"
    /\ owned' = IF running THEN [owned EXCEPT !["video"] = @ - 1] ELSE owned
    /\ frees' = IF running THEN frees + 1 ELSE frees
    /\ pc' = IF running THEN "stats" ELSE "stopped"
    /\ UNCHANGED <<running, polls, frame_type, video_frame,
                   warned_about_compression, counters, geometry, omt_frame,
                   clock, frame_log>>

\* NDIlib_recv_free_video_v2(ndi_receiver, &video_frame)
FreeVideo ==
    /\ pc = "free_video"
    /\ owned' = [owned EXCEPT !["video"] = @ - 1]
    /\ frees' = frees + 1
    /\ pc' = "stats"
    /\ UNCHANGED <<running, polls, frame_type, video_frame,
                   warned_about_compression, counters, geometry, omt_frame,
                   clock, frame_log>>

\* case NDIlib_frame_type_audio / NDIlib_frame_type_metadata
CaseAudioMetadata ==
    /\ pc = "switch" /\ frame_type \in {"audio", "metadata"}
    /\ owned' = [owned EXCEPT ![frame_type] = @ - 1]
    /\ frees' = frees + 1
    /\ pc' = "stats"
    /\ UNCHANGED <<running, polls, frame_type, video_frame,
                   warned_about_compression, counters, geometry, omt_frame,
                   clock, frame_log>>

\* A status change counted as a received frame.
CaseOther_CountsReceived ==
    /\ pc = "switch" /\ frame_type \in {"none", "status_change", "error"}
    /\ frames_received' =
         IF frame_type = "status_change" THEN AddInt32(frames_received, 1)
         ELSE frames_received
    /\ pc' = "stats"
    /\ UNCHANGED <<running, polls, frame_type, video_frame, owned, frees,
                   warned_about_compression, frames_sent, bytes_received,
                   bytes_sent, keyframes_sent, pframes_sent, frames_dropped,
                   geometry, omt_frame, clock, frame_log>>

\* case NDIlib_frame_type_none, NDIlib_frame_type_status_change, default
CaseOther ==
    /\ pc = "switch" /\ frame_type \in {"none", "status_change", "error"}
    /\ pc' = "stats"
    /\ UNCHANGED <<running, polls, frame_type, video_frame, owned, frees,
                   warned_about_compression, counters, geometry, omt_frame,
                   clock, frame_log>>

\* (float)dropped / received > 0.1.  The quotient is rounded to float and
\* compared with the double 0.1: the float nearest to 1/10 is
\* 0.100000001490116..., above the double 0.1, and every quotient from
\* 0.0999999978 up rounds to it or higher; with a divisor below 44 million a
\* quotient in that range is at least 1/10.  x/0 is +inf, 0/0 is NaN.
FloatExceedsTenth(dropped, received) ==
    IF received = 0 THEN dropped > 0
    ELSE 10 * dropped >= received

\* The keyframe warning given from the tenth frame sent.
OnlyKeyframes_FromTen == frames_sent >= 10 /\ pframes_sent = 0

\* if (frames_sent > 10 && pframes_sent == 0)
OnlyKeyframes == frames_sent > 10 /\ pframes_sent = 0

\* if (frames_received > 10 && drop_rate > 0.1)
HighDropRate ==
    frames_received > 10 /\ FloatExceedsTenth(frames_dropped, frames_received)

\* print_statistics reporting after one second.
print_statistics_EverySecond ==
    IF now' - last_stats_time >= TicksPerSecond
    THEN /\ last_stats_time' = now'
         /\ IF (now' - StartTime) \div TicksPerSecond > 0
            THEN /\ reports' = reports + 1
                 /\ report' = [only_keyframes |-> OnlyKeyframes,
                               high_drop_rate |-> HighDropRate]
            ELSE UNCHANGED <<reports, report>>
    ELSE UNCHANGED <<last_stats_time, reports, report>>

\* print_statistics: when two seconds have passed since last_stats_time it is
\* moved to now, and the statistics block and the warnings are printed if at
\* least one whole second has passed since start_time.
print_statistics ==
    IF now' - last_stats_time >= 2 * TicksPerSecond
    THEN /\ last_stats_time' = now'
         /\ IF (now' - StartTime) \div TicksPerSecond > 0
            THEN /\ reports' = reports + 1
                 /\ report' = [only_keyframes |-> OnlyKeyframes,
                               high_drop_rate |-> HighDropRate]
            ELSE UNCHANGED <<reports, report>>
    ELSE UNCHANGED <<last_stats_time, reports, report>>

\* "Update connection count periodically": the clock is read, having
\* advanced by one of steps since the last read, and after one second the
\* connection count (one of counts) is sampled and print_statistics called.
ConnectionCheckOn(steps, counts) ==
    /\ pc = "stats"
    /\ \E dt \in steps : now' = now + dt
    /\ IF now' - last_connection_check >= TicksPerSecond
       THEN /\ \E c \in counts : connections' = c
            /\ last_connection_check' = now'
            /\ print_statistics
       ELSE UNCHANGED <<connections, last_connection_check, last_stats_time,
                        reports, report>>
    /\ pc' = "while"
    /\ UNCHANGED <<running, polls, frame_type, video_frame, owned, frees,
                   warned_about_compression, counters, geometry, omt_frame,
                   frame_log>>

ConnectionCheck == ConnectionCheckOn(0..MaxDt, ConnectionCounts)

Next ==
    \/ SignalHandler
    \/ LoopTest
    \/ Capture
    \/ CaseVideo
    \/ FreeVideo
    \/ CaseAudioMetadata
    \/ CaseOther
    \/ ConnectionCheck

Spec == Init /\ [][Next]_vars

(* ------------- shutdown while events of every kind arrive ------------- *)

\* Video frames of one geometry delivered into buffer b: a valid keyframe,
\* a valid delta frame and a frame shorter than the packet header.
ShutdownFrames(b) ==
    { f \in VideoFrames(b) :
        /\ f.xres = 1920 /\ f.FourCC = H264 /\ f.p_data # NULL
        /\ \/ /\ f.data_size_in_bytes = HeaderSize + 4
              /\ f.packet.fourCC = H264
              /\ f.packet.flags \in {0, KeyframeBit}
           \/ f.data_size_in_bytes = 4 }

ShutdownCapture == CaptureOf(FrameKinds, ShutdownFrames(polls + 1))

\* A step of the thread that executes run().
LoopStep ==
    \/ LoopTest
    \/ ShutdownCapture
    \/ CaseVideo
    \/ FreeVideo
    \/ CaseAudioMetadata
    \/ CaseOther
    \/ ConnectionCheck

ShutdownNext == SignalHandler \/ LoopStep

\* The loop thread keeps running: the capture returns within its 100 ms
\* timeout and no other call of the loop blocks.
FairSpec == Init /\ [][ShutdownNext]_vars /\ WF_vars(LoopStep)

(* ------------- one compressed frame, all encoded units ---------------- *)

\* The loop after its first capture has delivered a valid compressed frame.
ScanInit ==
    /\ running = TRUE
    /\ pc = "switch"
    /\ polls = 1
    /\ frame_type = "video"
    /\ video_frame \in ScanFrames(1)
    /\ owned = [k \in BufferKinds |-> IF k = "video" THEN 1 ELSE 0]
    /\ frees = 0
    /\ warned_about_compression = FALSE
    /\ frames_received = 0 /\ frames_sent = 0
    /\ bytes_received = 0 /\ bytes_sent = 0
    /\ connections = 0
    /\ keyframes_sent = 0 /\ pframes_sent = 0 /\ frames_dropped = 0
    /\ current_width = 0 /\ current_height = 0
    /\ current_fps_n = 30 /\ current_fps_d = 1
    /\ omt_frame =
         [Flags |-> OMTVideoFlags_None, Width |-> 0, Height |-> 0,
          FrameRateN |-> 0, FrameRateD |-> 0, AspectRatio |-> <<0, 1>>,
          Data |-> [buffer |-> NULL, offset |-> 0], DataLength |-> 0]
    /\ now = RunStart
    /\ last_connection_check = RunStart
    /\ last_stats_time = StartTime
    /\ reports = 0
    /\ report = NoReport
    /\ validation = "none"
    /\ hdr_read = FALSE
    /\ unit_read = FALSE
    /\ send_result = NoSend
    /\ send_calls = 0
    /\ format_changes = 0
    /\ sent_flags = {}
    /\ nal_scan = NoScan

ScanNext ==
    \/ SignalHandler
    \/ CaseVideo
    \/ FreeVideo
    \/ ConnectionCheck
    \/ LoopTest

ScanSpec == ScanInit /\ [][ScanNext]_vars

(* ------------------------------ claims -------------------------------- *)

\* The step in which handle_video_frame runs on the delivered frame.
VideoHandled == pc = "switch" /\ frame_type = "video" /\ pc' = "free_video"

\* Encoded-unit length of the delivered frame: h264_size.
UnitLength == video_frame.data_size_in_bytes - HeaderSize

\* C1: every Video event whose frame the validator rejects increases the
\* dropped-frame counter by exactly one, leaves the sent-frame counter
\* unchanged and makes no sink send call.
C1_RejectedFrameCountedDropped ==
    [][ (VideoHandled /\ validation' # "Ok")
          => /\ frames_dropped' = frames_dropped + 1
             /\ frames_sent' = frames_sent
             /\ send_calls' = send_calls ]_vars

\* C2: for every validated Video frame the send result decides the
\* accounting: result >= 0 adds one to frames-sent and the encoded-unit length
\* to both byte counters and leaves dropped unchanged; a negative result adds
\* one to dropped and leaves frames-sent and the byte counters unchanged.
C2_SendResultDecidesAccounting ==
    [][ (VideoHandled /\ validation' = "Ok")
          => IF send_result' >= 0
             THEN /\ frames_sent' = frames_sent + 1
                  /\ bytes_sent' >= bytes_sent
                  /\ bytes_sent' - bytes_sent = UnitLength
                  /\ bytes_received' >= bytes_received
                  /\ bytes_received' - bytes_received = UnitLength
                  /\ frames_dropped' = frames_dropped
             ELSE /\ frames_dropped' = frames_dropped + 1
                  /\ frames_sent' = frames_sent
                  /\ bytes_sent' = bytes_sent
                  /\ bytes_received' = bytes_received ]_vars

\* C3: the keyframe and delta-frame counters count only frames whose send
\* result is non-negative, so after every handled Video event
\* keyframes-sent + delta-frames-sent = frames-sent.
C3_KeyDeltaSumIsSent ==
    pc # "switch" => keyframes_sent + pframes_sent = frames_sent

\* C4: every delivered Video, Audio or Metadata buffer is released exactly
\* once, in the iteration that received it and before the next poll, on every
\* path (all rejections, negative send results); nothing is released for the
\* other events, and nothing is released twice.
C4_ReleasedExactlyOnce ==
    /\ \A k \in BufferKinds : owned[k] \in {0, 1}
    /\ pc = "switch"
         => /\ frees = 0
            /\ \A k \in BufferKinds :
                 owned[k] = IF k = frame_type THEN 1 ELSE 0
    /\ pc = "free_video"
         => /\ frees = 0 /\ frame_type = "video"
            /\ \A k \in BufferKinds :
                 owned[k] = IF k = "video" THEN 1 ELSE 0
    /\ pc \in {"stats", "while", "capture", "stopped"}
         => /\ \A k \in BufferKinds : owned[k] = 0
            /\ polls > 0
                 => frees = IF frame_type \in BufferKinds THEN 1 ELSE 0

\* C4 witness: a rejected (too small) video frame has been released once.
C4_Witness ==
    /\ pc = "stats" /\ frame_type = "video" /\ validation = "TooSmall"
    /\ frees = 1 /\ owned["video"] = 0

\* C5: the envelope's keyframe/delta indicator follows the container's
\* keyframe flag: envelopes built for a keyframe packet and for a delta packet
\* carry different indications.
C5_IndicatorFollowsContainerFlag ==
    \A p \in sent_flags : \A q \in sent_flags :
        p[1] # q[1] => p[2] # q[2]

\* C6: a height of 0 is never accepted into the stream geometry, so no
\* envelope is ever built (and its aspect ratio computed) with height 0.
C6_NoEnvelopeWithZeroHeight ==
    send_calls > 0 => omt_frame.Height # 0

\* C7: every envelope passed to the sink carries the width, height and frame
\* rate of the stream geometry at build time, which is the geometry of the frame
\* being forwarded, and an aspect ratio equal to that width / that height; after
\* a geometry change the next envelope reports the new geometry, never a stale
\* or mixed pair.
C7_EnvelopeCarriesCurrentGeometry ==
    /\ (pc = "free_video" /\ validation = "Ok")
         => /\ omt_frame.Width = current_width
            /\ omt_frame.Height = current_height
            /\ omt_frame.FrameRateN = current_fps_n
            /\ omt_frame.FrameRateD = current_fps_d
            /\ omt_frame.Width = video_frame.xres
            /\ omt_frame.Height = video_frame.yres
            /\ omt_frame.FrameRateN = video_frame.frame_rate_N
            /\ omt_frame.FrameRateD = video_frame.frame_rate_D
            /\ omt_frame.AspectRatio = FloatDiv(current_width, current_height)
    /\ send_calls > 0
         => /\ omt_frame.AspectRatio
                 = FloatDiv(omt_frame.Width, omt_frame.Height)
            /\ <<omt_frame.Width, omt_frame.Height,
                 omt_frame.FrameRateN, omt_frame.FrameRateD>> \in Geometries

\* C7 witness: the second of two forwarded frames, after the geometry changed
\* twice (0x0 -> first frame -> 1280x720), reports 1280x720.
C7_Witness ==
    /\ pc = "free_video" /\ validation = "Ok"
    /\ send_calls = 2 /\ format_changes = 2
    /\ omt_frame.Width = 1280 /\ omt_frame.Height = 720
    /\ omt_frame.AspectRatio = <<16, 9>>

\* C8: every telemetry counter is non-decreasing over every step, and
\* frames-sent <= frames-received in every state.
C8_CountersMonotonic ==
    [][ /\ frames_received' >= frames_received
        /\ frames_sent' >= frames_sent
        /\ frames_dropped' >= frames_dropped
        /\ bytes_received' >= bytes_received
        /\ bytes_sent' >= bytes_sent
        /\ keyframes_sent' >= keyframes_sent
        /\ pframes_sent' >= pframes_sent
        /\ frames_sent' <= frames_received' ]_vars

C10_UncompressedIsNotCompressed ==
    (pc = "free_video" /\ video_frame.FourCC # H264)
        => (validation = "NotCompressed" /\ ~hdr_read /\ ~unit_read)

\* C10 (amended): every frame whose format tag is not the compressed codec and
\* whose payload is not empty (pointer set, length > 0) is rejected as
\* NotCompressed; no frame with another tag has a payload byte read, and an
\* empty one is rejected by the empty-payload test instead; WrongCodec is
\* given exactly to compressed-tagged, non-empty frames of at least header
\* size whose header codec identifier mismatches.
C10_NonEmptyUncompressedIsNotCompressed ==
    pc = "free_video" =>
      /\ video_frame.FourCC # H264
           => /\ validation \in {"Empty", "NotCompressed"}
              /\ validation = "NotCompressed"
                   <=> ( video_frame.p_data # NULL
                         /\ video_frame.data_size_in_bytes # 0 )
              /\ ~hdr_read /\ ~unit_read
              /\ send_result = NoSend
      /\ validation = "NotCompressed" => video_frame.FourCC # H264
      /\ validation = "WrongCodec"
           <=> ( /\ video_frame.FourCC = H264
                 /\ video_frame.p_data # NULL
                 /\ video_frame.data_size_in_bytes >= HeaderSize
                 /\ video_frame.packet.fourCC # H264 )

\* C10 witness: an uncompressed-tagged frame of header size or more, whose
\* first bytes would parse as a mismatching header, was rejected as
\* NotCompressed with no byte read.
C10_Witness ==
    /\ pc = "free_video" /\ video_frame.FourCC # H264
    /\ video_frame.data_size_in_bytes >= HeaderSize
    /\ video_frame.packet.fourCC # H264
    /\ validation = "NotCompressed" /\ ~hdr_read /\ ~unit_read

(* --------------- long runs of valid compressed frames ----------------- *)

\* Valid compressed frames of one geometry and size delivered into buffer b,
\* with the packet flags in flags.
StatsFrames(b, flags) ==
    { f \in VideoFrames(b) :
        /\ f.xres = 1920 /\ f.FourCC = H264 /\ f.p_data # NULL
        /\ f.data_size_in_bytes = HeaderSize + 4
        /\ f.packet.fourCC = H264 /\ f.packet.flags \in flags }

\* The clock advances by MaxDt in every iteration and one client stays
\* connected.
StatsConnectionCheck == ConnectionCheckOn({MaxDt}, {1})

\* A run in which every capture delivers a keyframe or times out.
DropLoopTest == LoopTestUpTo(MaxDropPolls)

DropCapture ==
    CaptureOf({"video", "none"}, StatsFrames(polls + 1, {KeyframeBit}))

DropNext ==
    \/ DropLoopTest
    \/ DropCapture
    \/ CaseVideo
    \/ FreeVideo
    \/ CaseOther
    \/ StatsConnectionCheck

DropSpec == Init /\ [][DropNext]_vars

\* A run in which every capture delivers a keyframe or a delta frame.
KeyLoopTest == LoopTestUpTo(MaxKeyPolls)

KeyCapture == CaptureOf({"video"}, StatsFrames(polls + 1, {0, KeyframeBit}))

KeyNext ==
    \/ SignalHandler
    \/ KeyLoopTest
    \/ KeyCapture
    \/ CaseVideo
    \/ FreeVideo
    \/ StatsConnectionCheck

KeySpec == Init /\ [][KeyNext]_vars

(* ---------------------- claims on the scan ---------------------------- *)

\* Indices inside the scan window at which a 3-byte or 4-byte start marker
\* of the span (d, n) is complete.
MarkerEnds(d, n) ==
    { i \in 0..(Min(n, ScanWindow) - 1) :
        \/ i >= 2 /\ SubSeq(d, i - 1, i + 1) = <<0, 0, 1>>
        \/ i >= 3 /\ SubSeq(d, i - 2, i + 1) = <<0, 0, 0, 1>> }

FirstMarkerEnd(d, n) ==
    CHOOSE i \in MarkerEnds(d, n) : \A j \in MarkerEnds(d, n) : i <= j

\* The frame has been validated and scanned, and is still in video_frame.
Scanned == validation = "Ok" /\ pc # "switch"

\* C11 (as stated): the scan result is Unknown exactly when no start marker
\* is complete inside the first min(32, length) bytes; otherwise it is the
\* type named by the low 5 bits of the byte that follows the first marker;
\* no byte at or beyond the span length is read.
C11_TypeFromByteAfterMarker ==
    Scanned =>
        LET d == video_frame.unit
            n == UnitLength
        IN /\ nal_scan.top < n
           /\ (nal_scan.frame_type = Unknown) <=> (MarkerEnds(d, n) = {})
           /\ (MarkerEnds(d, n) # {} /\ FirstMarkerEnd(d, n) + 1 < n)
                 => nal_scan.frame_type =
                      NalName(ByteAt(d, FirstMarkerEnd(d, n) + 1) % NalMask)

\* C11 (amended): the scan result is Unknown when no start marker is
\* complete inside the first min(32, length) bytes and also when the first
\* marker ends at the last byte of the span; otherwise it is the type named
\* by the low 5 bits of the byte that follows the first marker, whether that
\* marker is the 3-byte or the 4-byte one and whatever its offset; no byte
\* at or beyond the span length is read.
C11_TypeFromByteAfterMarkerIfAny ==
    Scanned =>
        LET d == video_frame.unit
            n == UnitLength
        IN /\ nal_scan.top < n
           /\ nal_scan.has_start_codes <=> (MarkerEnds(d, n) # {})
           /\ nal_scan.frame_type =
                IF MarkerEnds(d, n) = {} THEN Unknown
                ELSE IF FirstMarkerEnd(d, n) + 1 >= n THEN Unknown
                ELSE NalName(ByteAt(d, FirstMarkerEnd(d, n) + 1) % NalMask)

\* A unit whose only start marker ends at its last byte has been scanned:
\* the marker was found, the last byte was read and no type was derived.
C11_Witness ==
    /\ Scanned
    /\ nal_scan.has_start_codes /\ nal_scan.frame_type = Unknown
    /\ nal_scan.top = UnitLength - 1

\* C12: the scan result is advisory only: whether a validated frame is
\* forwarded, what the envelope carries and every counter update are fixed by
\* the container keyframe flag, the unit length, the geometry and the send
\* result, whatever the unit's bytes and their classification; a frame
\* classified Unknown is still forwarded.
C12_ScanIsAdvisory ==
    [][ (VideoHandled /\ validation' = "Ok")
          => LET key == IsKeyframe(video_frame.packet.flags)
                 ok == send_result' >= 0
             IN /\ send_calls' = send_calls + 1
                /\ omt_frame'.DataLength = UnitLength
                /\ omt_frame'.Width = video_frame.xres
                /\ omt_frame'.Height = video_frame.yres
                /\ omt_frame'.Flags = OMTVideoFlags_None
                /\ frames_received' = frames_received + 1
                /\ keyframes_sent' = keyframes_sent + (IF key THEN 1 ELSE 0)
                /\ pframes_sent' = pframes_sent + (IF key THEN 0 ELSE 1)
                /\ frames_sent' = frames_sent + (IF ok THEN 1 ELSE 0)
                /\ frames_dropped' = frames_dropped + (IF ok THEN 0 ELSE 1)
                /\ bytes_sent' = bytes_sent + (IF ok THEN UnitLength ELSE 0)
                /\ bytes_received' =
                     bytes_received + (IF ok THEN UnitLength ELSE 0) ]_vars

\* A delta frame (by its container flag) whose unit holds an IDR NAL unit
\* has been forwarded and counted as a delta frame.
C12_Witness ==
    /\ Scanned
    /\ nal_scan.frame_type.nal_type = 5
    /\ ~IsKeyframe(video_frame.packet.flags)
    /\ send_result = 200
    /\ frames_sent = 1 /\ pframes_sent = 1 /\ keyframes_sent = 0

(* -------------------- claims on the statistics ------------------------ *)

\* The step in which print_statistics prints a statistics block.
ReportEmitted == reports' = reports + 1

\* C13: at every emitted report the high-drop-rate warning is raised if and
\* only if frames_received > 10 and frames_dropped / frames_received > 0.1;
\* raising it changes no counter and does not stop the loop.
C13_HighDropRateFlag ==
    [][ ReportEmitted
          => /\ report'.high_drop_rate
                   <=> (frames_received > 10
                        /\ 10 * frames_dropped > frames_received)
             /\ counters' = counters
             /\ running' = running /\ pc' = "while" ]_vars

C15_StopsOnlyOnShutdownFlag ==
    [][ /\ (pc' = "stopped") => (pc = "while" /\ ~running)
        /\ (pc' # pc) => (running' = running)
        /\ (pc = "while" /\ running /\ pc' # pc) => (pc' = "capture")
        /\ (pc \in {"switch", "free_video", "stats"} /\ pc' # pc)
             => pc' \in {"free_video", "stats", "while"} ]_vars

\* The loop has polled again after a frame whose send returned -1.
C15_Witness ==
    /\ running /\ pc = "switch" /\ polls = 2
    /\ validation = "Ok" /\ send_result = -1 /\ frames_dropped = 1

\* C16: once a video buffer has been released, no loop-persistent variable
\* still points into it: the envelope's Data pointer is null or points into
\* the buffer that is currently owned.
C16_NoPointerAfterRelease ==
    omt_frame.Data.buffer # NULL
        => (owned["video"] = 1 /\ omt_frame.Data.buffer = video_frame.p_data)

\* C17: once the signal handler has set the shutdown flag the loop reaches
\* "stopped"; the flag stays set and the loop test is not passed again, so at
\* most the capture that was already entered is still made; the loop stops
\* only at its loop test, never in the middle of an iteration, and when it
\* has stopped every delivered buffer has been released.
C17_StopsAfterInFlightFrame ==
    /\ (~running) ~> (pc = "stopped")
    /\ [][ /\ (~running) => (~running')
           /\ (~running /\ pc' = "capture") => (pc = "capture")
           /\ (pc' = "stopped") => (pc \in {"while", "stopped"}) ]_vars
    /\ [](pc = "stopped"
            => /\ \A k \in BufferKinds : owned[k] = 0
               /\ frame_type \in BufferKinds => frees = 1)

\* The flag has been set while a forwarded frame is not yet released.
C17_Witness ==
    /\ ~running /\ pc = "free_video"
    /\ validation = "Ok" /\ owned["video"] = 1

\* C18: a Video event leads to exactly one omt_send call when the frame is
\* validated and to none otherwise; the call is made in the handling step,
\* while the frame's buffer is still owned and before the next capture;
\* nothing else calls omt_send, so a frame whose send failed is not sent
\* again and the number of calls is frames_sent + frames_dropped.
C18_OneSendPerValidatedFrame ==
    /\ [](send_calls = frames_sent + frames_dropped)
    /\ [][ /\ VideoHandled
               => /\ owned["video"] = 1 /\ polls' = polls
                  /\ send_calls' =
                       send_calls + (IF validation' = "Ok" THEN 1 ELSE 0)
           /\ (~VideoHandled) => (send_calls' = send_calls) ]_vars

\* The loop has captured again after a frame whose send returned -1, and
\* omt_send has been called once.
C18_Witness ==
    /\ pc = "switch" /\ polls = 2 /\ frame_type = "none"
    /\ validation = "Ok" /\ send_result = -1
    /\ send_calls = 1 /\ frames_dropped = 1 /\ frames_sent = 0

\* The step that handles an Audio, Metadata, None or StatusChange event.
OtherHandled ==
    /\ pc = "switch" /\ pc' # pc
    /\ frame_type \in {"audio", "metadata", "none", "status_change"}

\* C19: handling an Audio, Metadata, None or StatusChange event changes no
\* counter and not the stream geometry, and does not call omt_send (the
\* envelope is left as it was).
C19_OtherEventsChangeNothing ==
    [][ OtherHandled
          => /\ counters' = counters /\ geometry' = geometry
             /\ send_calls' = send_calls /\ omt_frame' = omt_frame ]_vars

\* A StatusChange event handled after a forwarded video frame: the counters
\* and the geometry of that frame are still in place.
C19_Witness ==
    /\ pc = "stats" /\ polls = 2 /\ frame_type = "status_change"
    /\ frames_received = 1 /\ frames_sent = 1 /\ send_calls = 1
    /\ current_width = 1920 /\ current_height = 1080

\* C20: the connection count is sampled, and print_statistics called, only
\* when at least one second has passed since the previous sample; a report
\* is emitted only when at least two seconds have passed since
\* last_stats_time, which is the time of the previous report (start_time
\* before the first); the step changes no counter and not the geometry.
C20_SampleAndReportCadence ==
    [][ /\ (connections' # connections
              \/ last_connection_check' # last_connection_check
              \/ last_stats_time' # last_stats_time
              \/ reports' # reports \/ report' # report)
             => /\ now' - last_connection_check >= TicksPerSecond
                /\ last_connection_check' = now'
        /\ (reports' # reports \/ last_stats_time' # last_stats_time)
             => /\ ReportEmitted
                /\ now' - last_stats_time >= 2 * TicksPerSecond
                /\ last_stats_time' = now'
        /\ (clock' # clock)
             => (counters' = counters /\ geometry' = geometry) ]_vars

\* A sample taken one second after a report, without a second report.
C20_Witness ==
    /\ pc = "while" /\ reports = 1
    /\ last_connection_check - last_stats_time = TicksPerSecond

(* ------------------ claims on sizes and counters ---------------------- *)

\* The delivered frame has the compressed tag, a payload of exactly the
\* header size and the H.264 codec in its header.
HeaderOnlyFrame ==
    /\ video_frame.FourCC = H264 /\ video_frame.p_data # NULL
    /\ video_frame.data_size_in_bytes = HeaderSize
    /\ video_frame.packet.fourCC = H264

\* C21: a compressed-tagged frame whose payload is exactly the header, with
\* the H.264 codec in it, is validated with an encoded unit of length 0; the
\* scan reads no byte and reports Unknown; the frame is passed to omt_send
\* in an envelope of DataLength 0 and counted by the send result as any
\* other frame.
C21_HeaderOnlyFrameForwarded ==
    [][ (VideoHandled /\ HeaderOnlyFrame)
          => /\ validation' = "Ok"
             /\ nal_scan' = NoScan
             /\ send_calls' = send_calls + 1
             /\ omt_frame'.DataLength = 0
             /\ omt_frame'.Data =
                  [buffer |-> video_frame.p_data, offset |-> HeaderSize]
             /\ frames_received' = frames_received + 1
             /\ IF send_result' >= 0
                THEN /\ frames_sent' = frames_sent + 1
                     /\ frames_dropped' = frames_dropped
                ELSE /\ frames_sent' = frames_sent
                     /\ frames_dropped' = frames_dropped + 1
             /\ bytes_sent' = bytes_sent
             /\ bytes_received' = bytes_received ]_vars

\* A header-only frame has been accepted by omt_send.
C21_Witness ==
    /\ pc = "free_video" /\ HeaderOnlyFrame
    /\ validation = "Ok" /\ nal_scan.frame_type = Unknown
    /\ send_result = 0 /\ frames_sent = 1 /\ omt_frame.DataLength = 0

\* The step in which omt_send accepts the delivered frame.
FrameSent == VideoHandled /\ validation' = "Ok" /\ send_result' >= 0

\* C22: the byte counters hold the exact running total of the encoded-unit
\* lengths of the frames counted as sent: every step that counts a frame as
\* sent raises both by exactly the unit length, no other step changes them,
\* and they are never below zero, also when the total passes 2^31 - 1.
C22_ByteCountersExact ==
    /\ [](bytes_sent >= 0 /\ bytes_received >= 0)
    /\ [][ IF FrameSent
           THEN /\ bytes_sent' >= bytes_sent
                /\ bytes_sent' - bytes_sent = UnitLength
                /\ bytes_received' >= bytes_received
                /\ bytes_received' - bytes_received = UnitLength
           ELSE /\ bytes_sent' = bytes_sent
                /\ bytes_received' = bytes_received ]_vars

\* C23: the keyframe and delta-frame counters together count every omt_send
\* attempt (they are raised before the call), and frames_dropped counts the
\* attempts that returned a negative result: in every state
\* keyframes_sent + pframes_sent = send_calls = frames_sent + frames_dropped.
C23_KeyDeltaSumIsAttempts ==
    /\ keyframes_sent + pframes_sent = frames_sent + frames_dropped
    /\ keyframes_sent + pframes_sent = send_calls

\* A delta frame whose send failed and a keyframe whose send succeeded have
\* both been counted.
C23_Witness ==
    /\ pc = "free_video" /\ polls = 2
    /\ keyframes_sent = 1 /\ pframes_sent = 1
    /\ frames_sent = 1 /\ frames_dropped = 1
    /\ IsKeyframe(video_frame.packet.flags)
    /\ validation = "Ok" /\ send_result = 200

\* C24: bytes_received equals bytes_sent in every state: both change only in
\* the step in which omt_send accepts a frame, so payloads of rejected
\* frames, units whose send failed and packet headers are not counted.
C24_BytesReceivedIsBytesSent ==
    /\ [](bytes_received = bytes_sent)
    /\ [][ (~FrameSent)
             => /\ bytes_received' = bytes_received
                /\ bytes_sent' = bytes_sent ]_vars
    /\ [][ (FrameSent /\ UnitLength = 4)
             => /\ bytes_received' = bytes_received + 4
                /\ bytes_sent' = bytes_sent + 4 ]_vars

\* A 12-byte frame was sent and the next frame's send failed: only the 4
\* unit bytes of the first are counted, in both counters.
C24_Witness ==
    /\ pc = "free_video" /\ polls = 2
    /\ frames_received = 2 /\ frames_sent = 1 /\ frames_dropped = 1
    /\ validation = "Ok" /\ send_result = -1
    /\ bytes_received = 4 /\ bytes_sent = 4

\* C25: every Video event raises frames_received by one and stores the
\* frame's geometry as the stream geometry, whether the frame is then
\* validated or rejected as empty, too small, of the wrong codec or not
\* compressed.
C25_ReceivedAndGeometryBeforeValidation ==
    [][ VideoHandled
          => /\ frames_received' = frames_received + 1
             /\ validation' \in Outcomes
             /\ geometry' = <<video_frame.xres, video_frame.yres,
                              video_frame.frame_rate_N,
                              video_frame.frame_rate_D>> ]_vars

\* A frame of a new geometry was rejected as too small after a forwarded
\* frame: it is counted and its geometry is the stream geometry.
C25_Witness ==
    /\ pc = "free_video" /\ polls = 2
    /\ validation = "TooSmall" /\ frames_received = 2 /\ frames_sent = 1
    /\ format_changes = 2
    /\ current_width = 1280 /\ current_height = 720
    /\ omt_frame.Width = 1920

====
